---- MODULE Spec2Model ----
(***************************************************************************)
(* Model of the diff-chunking and prompt-construction subsystem of the     *)
(* Flutter AI review bot (scripts/reviewer/diff_chunker.py and             *)
(* scripts/reviewer/prompt_builder.py).                                    *)
(*                                                                         *)
(* A Python str is modelled as a run-length encoded character sequence: a  *)
(* sequence of runs [c |-> <one character>, n |-> <how many>], kept in     *)
(* canonical form (no empty run, no two adjacent runs of one character),   *)
(* so that two texts are equal as strings iff they are equal as values.    *)
(* This keeps the program's real thresholds (30000, 40000, 100000          *)
(* characters) within reach of the model checker.                          *)
(***************************************************************************)
EXTENDS Integers, Sequences, FiniteSets, TLC

VARIABLES diff_text, op, max_length, should, chunks, truncated, was_truncated,
          file_boundaries

\* PromptBuilder.language, the files the loaders read, and what is built
VARIABLES language, fs, prompt, units, results, merged

diffVars == <<diff_text, op, max_length, should, chunks, truncated,
              was_truncated, file_boundaries>>

promptVars == <<language, fs, prompt, units, results, merged>>

\* GitHubClient: the review to post, the progress of the call, the chunks the
\* review was split into, the comment bodies to send and those accepted
VARIABLES review_text, gh, review_chunks, pending, posted

\* main: the environment variables, and the position, the external calls
\* made so far and the exit code of the run
VARIABLES environ, run

\* OpenRouterClient: the progress of one generate_review call
VARIABLES openrouter

clientVars == <<review_text, gh, review_chunks, pending, posted>>

llmVars == <<openrouter>>

mainVars == <<environ, run>>

vars == <<diffVars, promptVars, clientVars, mainVars, llmVars>>

(***************************************************************************)
(* Program constants.                                                      *)
(***************************************************************************)
SINGLE_PASS_FILE_THRESHOLD == 5
SINGLE_PASS_CHAR_THRESHOLD == 30000
MAX_CHUNK_SIZE == 40000
MAX_DIFF_LENGTH == 100000
WARN_DIFF_TRUNCATED == TRUE
MAX_COMMENT_LENGTH == 60000
MAX_RETRIES == 2
INITIAL_RETRY_DELAY == 5
RETRY_BACKOFF_MULTIPLIER == 2

(***************************************************************************)
(* Bounds of the model.                                                    *)
(***************************************************************************)
MaxFiles == 7
MaxPreLines == 1
MaxReviewLines == 3

(***************************************************************************)
(* Python str operations on run-length encoded text.                       *)
(***************************************************************************)
NL == "\n"

\* str.isspace() characters removed by str.rstrip()
Whitespace == {" ", "\n", "\t", "\r"}

\* c * n
Rep(c, n) == IF n <= 0 THEN <<>> ELSE <<[c |-> c, n |-> n]>>

\* a + b
Cat(a, b) ==
  IF a = <<>> THEN b
  ELSE IF b = <<>> THEN a
  ELSE IF a[Len(a)].c = b[1].c
       THEN SubSeq(a, 1, Len(a) - 1)
              \o <<[c |-> b[1].c, n |-> a[Len(a)].n + b[1].n]>>
              \o Tail(b)
       ELSE a \o b

\* a string literal, given as its characters
RECURSIVE Lit(_)
Lit(chars) ==
  IF chars = <<>> THEN <<>> ELSE Cat(Rep(chars[1], 1), Lit(Tail(chars)))

\* the number of characters in runs lo..hi of t
RECURSIVE RunChars(_, _, _)
RunChars(t, lo, hi) ==
  IF lo > hi THEN 0
  ELSE IF lo = hi THEN t[lo].n
  ELSE LET mid == (lo + hi) \div 2
       IN RunChars(t, lo, mid) + RunChars(t, mid + 1, hi)

\* len(t)
StrLen(t) == RunChars(t, 1, Len(t))

\* how many whole runs of t lie within its first k characters, searched
\* among lo..hi
RECURSIVE WholeRunsIn(_, _, _, _)
WholeRunsIn(t, k, lo, hi) ==
  IF lo >= hi THEN lo
  ELSE LET mid == (lo + hi + 1) \div 2
       IN IF RunChars(t, 1, mid) <= k
          THEN WholeRunsIn(t, k, mid, hi)
          ELSE WholeRunsIn(t, k, lo, mid - 1)

WholeRuns(t, k) == WholeRunsIn(t, k, 0, Len(t))

\* t[:k], k >= 0
Take(t, k) ==
  IF k <= 0 THEN <<>>
  ELSE LET m == WholeRuns(t, k)
           rest == k - RunChars(t, 1, m)
       IN IF m = Len(t) \/ rest = 0 THEN SubSeq(t, 1, m)
          ELSE Append(SubSeq(t, 1, m), [c |-> t[m + 1].c, n |-> rest])

\* t[k:], k >= 0
Drop(t, k) ==
  IF k <= 0 THEN t
  ELSE LET m == WholeRuns(t, k)
           rest == k - RunChars(t, 1, m)
       IN IF m = Len(t) THEN <<>>
          ELSE IF rest = 0 THEN SubSeq(t, m + 1, Len(t))
          ELSE <<[c |-> t[m + 1].c, n |-> t[m + 1].n - rest]>>
                 \o SubSeq(t, m + 2, Len(t))

\* t[a:b], 0 <= a
Slice(t, a, b) == Take(Drop(t, a), b - a)

\* t.startswith(p)
StartsWith(t, p) == Take(t, StrLen(p)) = p

\* t.rstrip()
RStrip(t) ==
  LET keep == {j \in 1..Len(t) : t[j].c \notin Whitespace}
  IN IF keep = {} THEN <<>>
     ELSE SubSeq(t, 1, CHOOSE j \in keep : \A i \in keep : i <= j)

\* n empty strings
RECURSIVE Empties(_)
Empties(n) == IF n <= 0 THEN <<>> ELSE <<(<<>>)>> \o Empties(n - 1)

\* the pieces of u + v from the pieces of u and the pieces of v: the last
\* piece of u and the first piece of v are one piece
JoinPieces(ps, qs) ==
  SubSeq(ps, 1, Len(ps) - 1) \o <<ps[Len(ps)] \o qs[1]>> \o Tail(qs)

\* the pieces of runs lo..hi of t between separators sep
RECURSIVE SplitRuns(_, _, _, _)
SplitRuns(t, sep, lo, hi) ==
  IF lo > hi THEN <<(<<>>)>>
  ELSE IF lo = hi
  THEN (IF t[lo].c = sep THEN Empties(t[lo].n + 1) ELSE <<(<<t[lo]>>)>>)
  ELSE LET mid == (lo + hi) \div 2
       IN JoinPieces(SplitRuns(t, sep, lo, mid), SplitRuns(t, sep, mid + 1, hi))

\* t.split(sep), sep a single character
Split(t, sep) == SplitRuns(t, sep, 1, Len(t))

\* the concatenation of the strings ts[i], ts[i+1], ...
RECURSIVE JoinFrom(_, _)
JoinFrom(ts, i) ==
  IF i > Len(ts) THEN <<>> ELSE Cat(ts[i], JoinFrom(ts, i + 1))

Join(ts) == JoinFrom(ts, 1)

DIFF_GIT == Lit(<<"d", "i", "f", "f", " ", "-", "-", "g", "i", "t", " ">>)
UNKNOWN == Lit(<<"u", "n", "k", "n", "o", "w", "n">>)
B_SLASH == Lit(<<"b", "/">>)

(***************************************************************************)
(* DiffChunker                                                             *)
(***************************************************************************)
DiffChunk(content, files, chunk_index, total_chunks) ==
  [content |-> content, files |-> files,
   chunk_index |-> chunk_index, total_chunks |-> total_chunks]

\* the path recorded for one 'diff --git ' line
BoundaryPath(line) ==
  LET parts == Split(line, " ")
      file_path == IF Len(parts) >= 4 THEN parts[4] ELSE UNKNOWN
  IN IF StartsWith(file_path, B_SLASH) THEN Drop(file_path, 2) ELSE file_path

\* variant of NextLinePos that forgets the newline split('\n') removed
NextLinePos_no_newline(current_pos, line) == current_pos + StrLen(line)

\* current_pos += len(line) + 1
NextLinePos(current_pos, line) == current_pos + StrLen(line) + 1

\* the loop of _extract_file_boundaries from line i (1-based) on
RECURSIVE ScanBoundaries(_, _, _)
ScanBoundaries(lines, i, current_pos) ==
  IF i > Len(lines) THEN <<>>
  ELSE (IF StartsWith(lines[i], DIFF_GIT)
        THEN <<[position |-> current_pos, line_num |-> i - 1,
                file_path |-> BoundaryPath(lines[i])]>>
        ELSE <<>>)
       \o ScanBoundaries(lines, i + 1, NextLinePos(current_pos, lines[i]))

extract_file_boundaries(text) == ScanBoundaries(Split(text, NL), 1, 0)

\* should_chunk with the two early returns merged into one that needs both
should_chunk_either(text) ==
  LET files == extract_file_boundaries(text)
  IN IF Len(files) <= SINGLE_PASS_FILE_THRESHOLD
        /\ StrLen(text) <= SINGLE_PASS_CHAR_THRESHOLD
     THEN FALSE
     ELSE TRUE

\* should_chunk with strict comparisons
should_chunk_strict(text) ==
  LET files == extract_file_boundaries(text)
  IN IF Len(files) < SINGLE_PASS_FILE_THRESHOLD THEN FALSE
     ELSE IF StrLen(text) < SINGLE_PASS_CHAR_THRESHOLD THEN FALSE
     ELSE TRUE

should_chunk(text) ==
  LET files == extract_file_boundaries(text)
  IN IF Len(files) <= SINGLE_PASS_FILE_THRESHOLD THEN FALSE
     ELSE IF StrLen(text) <= SINGLE_PASS_CHAR_THRESHOLD THEN FALSE
     ELSE TRUE

\* FileDiff with the segment cut at the chunk size
FileDiff_capped(text, files, i) ==
  LET start_pos == files[i].position
      end_pos == IF i + 1 <= Len(files) THEN files[i + 1].position
                 ELSE StrLen(text)
  IN Slice(text, start_pos,
           IF end_pos - start_pos > MAX_CHUNK_SIZE
           THEN start_pos + MAX_CHUNK_SIZE ELSE end_pos)

\* the segment of file i (1-based) of the scan
FileDiff(text, files, i) ==
  LET start_pos == files[i].position
      end_pos == IF i + 1 <= Len(files) THEN files[i + 1].position
                 ELSE StrLen(text)
  IN Slice(text, start_pos, end_pos)

\* AddFile keeping only the file added last
AddFile_replace(paths, file_info) == <<file_info.file_path>>

\* the file's path is appended to the files of the running chunk
AddFile(paths, file_info) == Append(paths, file_info.file_path)

\* ExceedsChunkSize measured against the single-pass character threshold
ExceedsChunkSize_single_pass(content, file_diff) ==
  content # <<>>
    /\ StrLen(content) + StrLen(file_diff) > SINGLE_PASS_CHAR_THRESHOLD

\* ExceedsChunkSize testing the running chunk alone
ExceedsChunkSize_current(content, file_diff) ==
  content # <<>> /\ StrLen(content) > MAX_CHUNK_SIZE

\* whether the running chunk is closed before file_diff is added
ExceedsChunkSize(content, file_diff) ==
  content # <<>> /\ StrLen(content) + StrLen(file_diff) > MAX_CHUNK_SIZE

\* the packing loop of chunk_diff from file i (1-based) on, and the append
\* of the last chunk after it
RECURSIVE PackFiles(_, _, _, _, _, _)
PackFiles(text, files, i, out, content, paths) ==
  IF i > Len(files)
  THEN IF content # <<>>
       THEN Append(out, DiffChunk(content, paths, Len(out), 0))
       ELSE out
  ELSE LET file_diff == FileDiff(text, files, i)
       IN IF ExceedsChunkSize(content, file_diff)
          THEN PackFiles(text, files, i + 1,
                         Append(out, DiffChunk(content, paths, Len(out), 0)),
                         file_diff, AddFile(<<>>, files[i]))
          ELSE PackFiles(text, files, i + 1, out,
                         Cat(content, file_diff),
                         AddFile(paths, files[i]))

\* chunk_diff without the single-pass return
chunk_diff_always_packs(text) ==
  LET files == extract_file_boundaries(text)
  IN IF files = <<>> THEN <<DiffChunk(text, <<UNKNOWN>>, 0, 1)>>
     ELSE LET packed == PackFiles(text, files, 1, <<>>, <<>>, <<>>)
          IN [k \in 1..Len(packed) |->
                [packed[k] EXCEPT !.total_chunks = Len(packed)]]

chunk_diff(text) ==
  LET files == extract_file_boundaries(text)
  IN IF files = <<>> THEN <<DiffChunk(text, <<UNKNOWN>>, 0, 1)>>
     ELSE IF ~should_chunk(text)
     THEN <<DiffChunk(text, [k \in 1..Len(files) |-> files[k].file_path], 0, 1)>>
     ELSE LET packed == PackFiles(text, files, 1, <<>>, <<>>, <<>>)
          IN [k \in 1..Len(packed) |->
                [packed[k] EXCEPT !.total_chunks = Len(packed)]]

(***************************************************************************)
(* PromptBuilder                                                           *)
(***************************************************************************)
extract_file_path(diff_line) ==
  LET parts == Split(diff_line, " ")
  IN IF Len(parts) >= 4 THEN parts[4] ELSE UNKNOWN

\* the marker loop of _truncate_diff_smartly from line i (1-based) on
RECURSIVE ScanMarkers(_, _, _)
ScanMarkers(lines, i, current_pos) ==
  IF i > Len(lines) THEN <<>>
  ELSE (IF StartsWith(lines[i], DIFF_GIT)
        THEN <<[line_num |-> i - 1, position |-> current_pos,
                file_path |-> extract_file_path(lines[i])]>>
        ELSE <<>>)
       \o ScanMarkers(lines, i + 1, current_pos + StrLen(lines[i]) + 1)

FileMarkers(text) == ScanMarkers(Split(text, NL), 1, 0)

\* MarkerFits with the last file compared by <=
MarkerFits_inclusive(file_markers, i, max_len) ==
  IF i + 1 <= Len(file_markers)
  THEN file_markers[i + 1].position <= max_len
  ELSE file_markers[i].position <= max_len

\* whether marker i (1-based) moves last_complete_file_idx
MarkerFits(file_markers, i, max_len) ==
  IF i + 1 <= Len(file_markers)
  THEN file_markers[i + 1].position <= max_len
  ELSE file_markers[i].position < max_len

\* the loop that finds last_complete_file_idx (0-based, -1 when none)
RECURSIVE LastCompleteFileIdx(_, _, _, _)
LastCompleteFileIdx(file_markers, i, max_len, last) ==
  IF i > Len(file_markers) THEN last
  ELSE LastCompleteFileIdx(file_markers, i + 1, max_len,
         IF MarkerFits(file_markers, i, max_len) THEN i - 1 ELSE last)

\* IsTruncated off by one file
IsTruncated_off_by_one(file_markers, last_complete_file_idx) ==
  last_complete_file_idx + 2 < Len(file_markers)

\* is_truncated: there are more files after the last complete one
IsTruncated(file_markers, last_complete_file_idx) ==
  last_complete_file_idx + 1 < Len(file_markers)

\* CutPosition one character past the next marker
CutPosition_past_marker(text, file_markers, last_complete_file_idx) ==
  IF last_complete_file_idx + 1 < Len(file_markers)
  THEN file_markers[last_complete_file_idx + 2].position + 1
  ELSE StrLen(text)

\* cut_position: the next marker, or the end of the diff
CutPosition(text, file_markers, last_complete_file_idx) ==
  IF last_complete_file_idx + 1 < Len(file_markers)
  THEN file_markers[last_complete_file_idx + 2].position
  ELSE StrLen(text)

\* returns <<truncated_diff, was_truncated>>
truncate_diff_smartly(text, max_len) ==
  IF StrLen(text) <= max_len THEN <<text, FALSE>>
  ELSE LET file_markers == FileMarkers(text)
       IN IF file_markers = <<>> THEN <<Take(text, max_len), TRUE>>
          ELSE LET last_complete_file_idx ==
                     LastCompleteFileIdx(file_markers, 1, max_len, -1)
               IN IF last_complete_file_idx = -1
                  THEN <<Take(text, max_len), TRUE>>
                  ELSE LET cut_position ==
                             CutPosition(text, file_markers, last_complete_file_idx)
                           is_truncated ==
                             IsTruncated(file_markers, last_complete_file_idx)
                       IN <<RStrip(Take(text, cut_position)), is_truncated>>

\* str.strip() and str.lstrip(): the text without its whitespace ends
LStrip(t) ==
  LET keep == {i \in 1..Len(t) : t[i].c \notin Whitespace}
  IN IF keep = {} THEN <<>>
     ELSE LET first == CHOOSE i \in keep : \A j \in keep : i <= j
          IN SubSeq(t, first, Len(t))

Strip(t) == LStrip(RStrip(t))

(***************************************************************************)
(* PromptBuilder: static text loaders and prompt assembly.                 *)
(* A file of the rule directory is [name, readable, content], a name is    *)
(* [stem, ext] and names are ordered by stem; fs is                        *)
(* [rule_dir |-> [exists, entries], templates |-> readable template files].*)
(* A prompt is the chosen template with its two placeholders filled in;    *)
(* the diff section is kept as its parts (banner, note, content, warning). *)
(***************************************************************************)
ALL == Lit(<<"a", "l", "l">>)
RULE_SEPARATOR == Lit(<<"\n", "\n", "-", "-", "-", "\n", "\n">>)

\* the text of _get_fallback_rules, abbreviated to its heading
FALLBACK_RULES ==
  Lit(<<"\n", "#", "#", " ", "K", "e", "y", " ", "R", "u", "l", "e", "s", ":",
        "\n">>)

TEMPLATE_EN == "review_prompt_en.txt"
TEMPLATE_VI == "review_prompt_vi.txt"
FALLBACK_TEMPLATE == "fallback_template_vi"

\* the language a text is written in: everything but 'english' is Vietnamese
TextLanguage(lang) == IF lang = "english" THEN "english" ELSE "vietnamese"

\* sorted([f for f in os.listdir(rules_dir) if f.endswith('.md')])
RECURSIVE SortedNames(_)
SortedNames(names) ==
  IF names = {} THEN <<>>
  ELSE LET least == CHOOSE n \in names : \A m \in names : n.stem <= m.stem
       IN <<least>> \o SortedNames(names \ {least})

RuleFiles(rule_dir) ==
  SortedNames({f.name : f \in {g \in rule_dir.entries : g.name.ext = "md"}})

\* open(rule_path).read(): the content, or an exception
ReadRule(rule_dir, name) ==
  LET f == CHOOSE g \in rule_dir.entries : g.name = name
  IN IF f.readable THEN [raised |-> FALSE, value |-> f.content]
     ELSE [raised |-> TRUE, value |-> <<>>]

\* variant of AppendRule that keeps an empty text for a file it could not read
AppendRule_keeps_failed(all_rules, r) ==
  Append(all_rules, IF r.raised THEN <<>> ELSE r.value)

\* the try/except around one rule file: a failed read is skipped
AppendRule(all_rules, r) ==
  IF r.raised THEN all_rules ELSE Append(all_rules, r.value)

RECURSIVE LoadRules(_, _, _, _)
LoadRules(rule_dir, rule_files, i, all_rules) ==
  IF i > Len(rule_files) THEN all_rules
  ELSE LoadRules(rule_dir, rule_files, i + 1,
                 AppendRule(all_rules, ReadRule(rule_dir, rule_files[i])))

\* separator.join(all_rules)
RECURSIVE JoinWith(_, _, _)
JoinWith(sep, ts, i) ==
  IF i > Len(ts) THEN <<>>
  ELSE IF i = Len(ts) THEN ts[i]
  ELSE Cat(Cat(ts[i], sep), JoinWith(sep, ts, i + 1))

load_coding_rules(files) ==
  IF ~files.rule_dir.exists THEN FALLBACK_RULES
  ELSE LET rule_files == RuleFiles(files.rule_dir)
       IN IF rule_files = <<>> THEN FALLBACK_RULES
          ELSE LET all_rules == LoadRules(files.rule_dir, rule_files, 1, <<>>)
               IN IF all_rules = <<>> THEN FALLBACK_RULES
                  ELSE JoinWith(RULE_SEPARATOR, all_rules, 1)

load_prompt_template(lang, files) ==
  LET prompt_file == IF lang = "english" THEN TEMPLATE_EN ELSE TEMPLATE_VI
  IN IF prompt_file \in files.templates THEN prompt_file
     ELSE FALLBACK_TEMPLATE

NoText == [present |-> FALSE, language |-> "", part |-> 0, of |-> 0,
           files |-> <<>>]

get_truncation_warning(lang) ==
  [present |-> TRUE, language |-> TextLanguage(lang), part |-> 0, of |-> 0,
   files |-> <<>>]

\* get_header numbering the parts from 0
get_header_zero_based(chunk, lang) ==
  IF chunk.total_chunks = 1 THEN NoText
  ELSE [present |-> TRUE, language |-> TextLanguage(lang),
        part |-> chunk.chunk_index, of |-> chunk.total_chunks,
        files |-> chunk.files]

\* DiffChunk.get_header
get_header(chunk, lang) ==
  IF chunk.total_chunks = 1 THEN NoText
  ELSE [present |-> TRUE, language |-> TextLanguage(lang),
        part |-> chunk.chunk_index + 1, of |-> chunk.total_chunks,
        files |-> chunk.files]

\* the NOTE / LUU Y line of build_chunked_prompts
ChunkInfo(chunk, lang) ==
  IF chunk.total_chunks > 1
  THEN [present |-> TRUE, language |-> TextLanguage(lang),
        part |-> chunk.chunk_index + 1, of |-> chunk.total_chunks,
        files |-> <<>>]
  ELSE NoText

\* prompt_template.format(coding_rules=..., code_diff=...)
Format(template, coding_rules, code_diff) ==
  [template |-> template, coding_rules |-> coding_rules,
   code_diff |-> code_diff]

build_prompt(lang, files, text) ==
  LET r == truncate_diff_smartly(text, MAX_DIFF_LENGTH)
      coding_rules == load_coding_rules(files)
      prompt_template == load_prompt_template(lang, files)
      truncation_warning == IF r[2] /\ WARN_DIFF_TRUNCATED
                            THEN get_truncation_warning(lang) ELSE NoText
  IN Format(prompt_template, coding_rules,
            [header |-> NoText, info |-> NoText, content |-> r[1],
             warning |-> truncation_warning])

\* variant of PromptOrder that walks the chunks from the last to the first
PromptOrder_reversed(n) == [i \in 1..n |-> n + 1 - i]

\* for chunk in chunks: the chunks are taken in list order
PromptOrder(n) == [i \in 1..n |-> i]

\* SinglePassChunk taking the chunk the chunker returns for the diff
SinglePassChunk_from_chunker(text) == chunk_diff(text)[1]

\* the chunk returned with the single-pass prompt
SinglePassChunk(text) == DiffChunk(text, <<ALL>>, 0, 1)

build_chunked_prompts(lang, files, text) ==
  IF ~should_chunk(text)
  THEN <<[prompt |-> build_prompt(lang, files, text),
          chunk |-> SinglePassChunk(text)]>>
  ELSE LET cs == chunk_diff(text)
           coding_rules == load_coding_rules(files)
           prompt_template == load_prompt_template(lang, files)
           order == PromptOrder(Len(cs))
       IN [i \in 1..Len(cs) |->
             LET chunk == cs[order[i]]
             IN [prompt |-> Format(prompt_template, coding_rules,
                                   [header |-> get_header(chunk, lang),
                                    info |-> ChunkInfo(chunk, lang),
                                    content |-> chunk.content,
                                    warning |-> NoText]),
                 chunk |-> chunk]]

(***************************************************************************)
(* GitHubClient                                                            *)
(***************************************************************************)
\* Config.COMMENT_HEADER; "ROBOT" stands for its robot-face character
COMMENT_HEADER ==
  Lit(<<"ROBOT", " ", "*", "*", "A", "I", " ", "C", "o", "d", "e", " ", "R",
        "e", "v", "i", "e", "w", " ", "-", " ", "F", "l", "u", "t", "t", "e",
        "r", " ", "(", "O", "p", "e", "n", "R", "o", "u", "t", "e", "r", ")",
        "*", "*", "\n", "\n">>)

\* boundary_markers; "RED" stands for the emoji markers, '###' starts with '##'
BoundaryMarkers ==
  {Lit(<<"#", "#">>), Lit(<<"RED">>), Lit(<<"-", "-", "-">>)}

StartsWithMarker(t) == \E m \in BoundaryMarkers : StartsWith(t, m)

Digit(d) == <<"0", "1", "2", "3", "4", "5", "6", "7", "8", "9">>[d + 1]

\* str(n) of a natural number
RECURSIVE Dec(_)
Dec(n) ==
  IF n < 10 THEN Lit(<<Digit(n)>>)
  ELSE Cat(Dec(n \div 10), Lit(<<Digit(n % 10)>>))

\* f"**Part {i}/{n}**\n\n"
PartLabel(i, n) ==
  Cat(Cat(Cat(Cat(Lit(<<"*", "*", "P", "a", "r", "t", " ">>), Dec(i)),
              Lit(<<"/">>)), Dec(n)),
      Lit(<<"*", "*", "\n", "\n">>))

\* if len(current_chunk) > safe_limit
MustSplit(current_chunk, line, safe_limit) ==
  StrLen(current_chunk) > safe_limit

\* one turn of the loop of _split_review_into_chunks
SplitStep(st, line, safe_limit) ==
  LET closed == IF Strip(st.current_chunk) # <<>>
                THEN Append(st.chunks, Strip(st.current_chunk))
                ELSE st.chunks
      fresh == Cat(line, Rep(NL, 1))
  IN IF MustSplit(st.current_chunk, line, safe_limit)
     THEN IF StartsWithMarker(Strip(line))
          THEN [chunks |-> closed, current_chunk |-> fresh]
          ELSE IF Strip(st.current_chunk) # <<>>
          THEN [chunks |-> closed, current_chunk |-> fresh]
          ELSE st
     ELSE [chunks |-> st.chunks,
           current_chunk |-> Cat(Cat(st.current_chunk, line), Rep(NL, 1))]

RECURSIVE SplitLoop(_, _, _, _)
SplitLoop(lines, i, st, safe_limit) ==
  IF i > Len(lines) THEN st
  ELSE SplitLoop(lines, i + 1, SplitStep(st, lines[i], safe_limit), safe_limit)

split_review_into_chunks(text, safe_limit) ==
  LET st == SplitLoop(Split(text, NL), 1,
                      [chunks |-> <<>>, current_chunk |-> <<>>], safe_limit)
  IN IF Strip(st.current_chunk) # <<>>
     THEN Append(st.chunks, Strip(st.current_chunk))
     ELSE st.chunks

\* max_length - len(header) - 500
SafeLimit(header) == MAX_COMMENT_LENGTH - StrLen(header) - 500

\* the chunks post_review_chunked splits the review into; none when it fits
ReviewChunks(text, header) ==
  IF StrLen(text) <= MAX_COMMENT_LENGTH - StrLen(header) THEN <<>>
  ELSE split_review_into_chunks(text, SafeLimit(header))

\* the comment bodies post_review_chunked sends, in order
CommentBodies(text, header) ==
  IF StrLen(text) <= MAX_COMMENT_LENGTH - StrLen(header)
  THEN <<Cat(header, text)>>
  ELSE LET cs == ReviewChunks(text, header)
       IN [i \in 1..Len(cs) |->
             Cat(IF Len(cs) > 1 THEN Cat(header, PartLabel(i, Len(cs)))
                 ELSE header,
                 cs[i])]

\* what a request can give: a status code, or a transport exception
HttpOutcomes == {"200", "401", "404", "500", "ConnectionError", "Timeout"}

StatusErrors == {"401", "404", "500"}

\* the exception that leaves the method after a request that failed:
\* only requests.exceptions.HTTPError is caught and wrapped
Escaping(outcome) ==
  IF outcome \in StatusErrors THEN "GitHubAPIError" ELSE outcome

(***************************************************************************)
(* scripts/ai_review.py: main and its helpers.                             *)
(***************************************************************************)
\* the header of post_pr_comments_chunked; "ROBOT" as in COMMENT_HEADER
GEMINI_HEADER ==
  Lit(<<"ROBOT", " ", "*", "*", "A", "I", " ", "C", "o", "d", "e", " ", "R",
        "e", "v", "i", "e", "w", " ", "-", " ", "F", "l", "u", "t", "t", "e",
        "r", " ", "(", "G", "e", "m", "i", "n", "i", ")", "*", "*", "\n",
        "\n">>)

\* short_diff = diff_text[:12000]
LEGACY_DIFF_LIMIT == 12000

PULL == Lit(<<"p", "u", "l", "l">>)

\* str.lower() on the values REVIEW_LANGUAGE is given here
Lower(v) == IF v = "English" THEN "english" ELSE v

\* os.getenv("REVIEW_LANGUAGE", "vietnamese").lower()
ReviewLanguage(env) ==
  IF env.REVIEW_LANGUAGE = "unset" THEN "vietnamese"
  ELSE Lower(env.REVIEW_LANGUAGE)

\* the PR number of a ref, found FALSE for None
get_pr_number_from_ref(ref) ==
  LET parts == Split(ref, "/")
  IN IF Len(parts) >= 3 /\ parts[2] = PULL
     THEN [found |-> TRUE, value |-> parts[3]]
     ELSE [found |-> FALSE, value |-> <<>>]

\* Config.validate: the list of configuration errors
validate(env) ==
  (IF ~env.OPENROUTER_API_KEY THEN <<"OPENROUTER_API_KEY is not set">>
   ELSE <<>>)
    \o (IF ~env.GITHUB_TOKEN THEN <<"GITHUB_TOKEN is not set">> ELSE <<>>)
    \o (IF ~env.GITHUB_REPOSITORY THEN <<"GITHUB_REPOSITORY is not set">>
        ELSE <<>>)
    \o (IF ReviewLanguage(env) \notin {"vietnamese", "english"}
        THEN <<"Invalid REVIEW_LANGUAGE">> ELSE <<>>)

(***************************************************************************)
(* ReviewMerger.  Its code is not among the source files; merge follows    *)
(* section 4.6 of the specification: one result is returned unchanged,     *)
(* several are emitted in chunk index order, each with a part title of up  *)
(* to three file paths and its trimmed review text.                        *)
(***************************************************************************)
RECURSIVE SortByIndex(_)
SortByIndex(rs) ==
  IF rs = {} THEN <<>>
  ELSE LET least == CHOOSE r \in rs : \A q \in rs : r.chunkIndex <= q.chunkIndex
       IN <<least>> \o SortByIndex(rs \ {least})

MergedPart(r) ==
  [chunkIndex |-> r.chunkIndex,
   title |-> SubSeq(r.files, 1, IF Len(r.files) < 3 THEN Len(r.files) ELSE 3),
   more |-> IF Len(r.files) > 3 THEN Len(r.files) - 3 ELSE 0,
   text |-> Strip(r.reviewText)]

merge(rs, lang) ==
  IF Len(rs) = 1
  THEN [parts_announced |-> 0,
        parts |-> <<[chunkIndex |-> rs[1].chunkIndex, title |-> <<>>,
                     more |-> 0, text |-> rs[1].reviewText]>>]
  ELSE LET sorted == SortByIndex({rs[i] : i \in 1..Len(rs)})
       IN [parts_announced |-> Len(rs),
           parts |-> [i \in 1..Len(sorted) |-> MergedPart(sorted[i])]]

(***************************************************************************)
(* The diffs the operations are applied to.                                *)
(***************************************************************************)
\* body sizes of a file: empty, two sizes around half a chunk, one over a chunk
BodySizes == {0, 19982, 19984, 41000}

\* total lengths a diff is padded up to (0: no padding)
TargetLengths == {0, 100, 29999, 30000, 30001, 100001}

\* trailing text of the diff
Tails == {<<>>, Rep(NL, 1)}

\* values of max_length given to _truncate_diff_smartly
MaxLengths == {0, 3, 20, 20010, 40030, MAX_DIFF_LENGTH}

PreambleLine == Cat(Rep("x", 2), Rep(NL, 1))

RECURSIVE PreambleText(_)
PreambleText(pre) ==
  IF pre <= 0 THEN <<>> ELSE Cat(PreambleLine, PreambleText(pre - 1))

\* the delimiter line of file i: three shapes, by i modulo 3
HeaderLine(i) ==
  IF i % 3 = 1
  THEN Cat(DIFF_GIT, Lit(<<"a", " ", "b">>))
  ELSE IF i % 3 = 2
  THEN Cat(DIFF_GIT, Lit(<<"a", "/", "p", " ", "b", "/", "p">>))
  ELSE DIFF_GIT

FileText(i, body) ==
  Cat(Cat(HeaderLine(i), Rep(NL, 1)),
      IF body = 0 THEN <<>> ELSE Cat(Rep("x", body), Rep(NL, 1)))

RECURSIVE FilesText(_, _, _, _)
FilesText(i, nfiles, sizeOdd, sizeEven) ==
  IF i > nfiles THEN <<>>
  ELSE Cat(FileText(i, IF i % 2 = 1 THEN sizeOdd ELSE sizeEven),
           FilesText(i + 1, nfiles, sizeOdd, sizeEven))

MakeDiff(pre, nfiles, sizeOdd, sizeEven, target, tail) ==
  LET base == Cat(PreambleText(pre),
                  FilesText(1, nfiles, sizeOdd, sizeEven))
      pad == target - StrLen(base) - StrLen(tail)
  IN Cat(Cat(base, Rep("x", pad)), tail)

Inputs ==
  {MakeDiff(pre, nfiles, sizeOdd, sizeEven, target, tail) :
     pre \in 0..MaxPreLines, nfiles \in 0..MaxFiles,
     sizeOdd \in BodySizes, sizeEven \in BodySizes,
     target \in TargetLengths, tail \in Tails}

\* the files of a complete installation: two rule files, both templates
RuleFile(stem, ext, readable, content) ==
  [name |-> [stem |-> stem, ext |-> ext], readable |-> readable,
   content |-> content]

RULE_A == Lit(<<"A">>)
RULE_B == Lit(<<"B">>)
NOTES_C == Lit(<<"C">>)

InstalledFs ==
  [rule_dir |-> [exists |-> TRUE,
                 entries |-> {RuleFile(1, "md", TRUE, RULE_A),
                              RuleFile(2, "md", TRUE, RULE_B)}],
   templates |-> {TEMPLATE_EN, TEMPLATE_VI}]

NoPrompt ==
  Format("", <<>>, [header |-> NoText, info |-> NoText, content |-> <<>>,
                    warning |-> NoText])

NothingMerged == [parts_announced |-> 0, parts |-> <<>>]

\* nothing built, nothing reviewed yet
PromptsIdle ==
  /\ prompt = NoPrompt
  /\ units = <<>>
  /\ results = <<>>
  /\ merged = NothingMerged

\* no diff given, no operation applied
DiffIdle ==
  /\ diff_text = <<>>
  /\ op = "init"
  /\ max_length = 0
  /\ should = FALSE
  /\ chunks = <<>>
  /\ truncated = <<>>
  /\ was_truncated = FALSE
  /\ file_boundaries = <<>>

\* a client that has sent nothing
ClientFresh ==
  [op |-> "", pc |-> "idle", exc |-> "", requests |-> <<>>, diff |-> <<>>]

ClientIdle ==
  /\ review_text = <<>>
  /\ gh = ClientFresh
  /\ review_chunks = <<>>
  /\ pending = <<>>
  /\ posted = <<>>

NoEnviron ==
  [GITHUB_REF |-> <<>>, GITHUB_TOKEN |-> FALSE, GITHUB_REPOSITORY |-> FALSE,
   GEMINI_API_KEY |-> FALSE, OPENROUTER_API_KEY |-> FALSE,
   REVIEW_LANGUAGE |-> "unset"]

RunFresh ==
  [pc |-> "start", calls |-> <<>>, exit_code |-> -1, fatal |-> "",
   diff |-> <<>>, reviewed |-> <<>>, to_post |-> <<>>]

MainIdle ==
  /\ environ = NoEnviron
  /\ run = RunFresh

\* a client that has not been called
LlmFresh ==
  [pc |-> "idle", attempt |-> 0, retry_delay |-> 0, requests |-> <<>>,
   announced |-> <<>>, slept |-> <<>>, exc |-> "",
   review |-> [some |-> FALSE, text |-> <<>>]]

LlmIdle == openrouter = LlmFresh

(***************************************************************************)
(* State machine: one operation is applied to one diff.                    *)
(***************************************************************************)
Init ==
  /\ diff_text \in Inputs
  /\ op = "init"
  /\ max_length = 0
  /\ should = FALSE
  /\ chunks = <<>>
  /\ truncated = <<>>
  /\ was_truncated = FALSE
  /\ file_boundaries = <<>>
  /\ language = "vietnamese"
  /\ fs = InstalledFs
  /\ PromptsIdle
  /\ ClientIdle
  /\ MainIdle
  /\ LlmIdle

ShouldChunk ==
  /\ op = "init"
  /\ op' = "should_chunk"
  /\ should' = should_chunk(diff_text)
  /\ UNCHANGED <<diff_text, max_length, chunks, truncated, was_truncated,
                 file_boundaries>>
  /\ UNCHANGED <<promptVars, clientVars, mainVars, llmVars>>

ChunkDiff ==
  /\ op = "init"
  /\ op' = "chunk_diff"
  /\ chunks' = chunk_diff(diff_text)
  /\ UNCHANGED <<diff_text, max_length, should, truncated, was_truncated,
                 file_boundaries>>
  /\ UNCHANGED <<promptVars, clientVars, mainVars, llmVars>>

TruncateDiffSmartly ==
  /\ op = "init"
  /\ \E m \in MaxLengths :
       LET r == truncate_diff_smartly(diff_text, m)
       IN /\ op' = "truncate"
          /\ max_length' = m
          /\ truncated' = r[1]
          /\ was_truncated' = r[2]
  /\ UNCHANGED <<diff_text, should, chunks, file_boundaries>>
  /\ UNCHANGED <<promptVars, clientVars, mainVars, llmVars>>

\* build_prompt; truncated and was_truncated keep what its truncation gave
BuildPrompt ==
  /\ op = "init"
  /\ LET r == truncate_diff_smartly(diff_text, MAX_DIFF_LENGTH)
     IN /\ op' = "build_prompt"
        /\ max_length' = MAX_DIFF_LENGTH
        /\ truncated' = r[1]
        /\ was_truncated' = r[2]
  /\ prompt' = build_prompt(language, fs, diff_text)
  /\ UNCHANGED <<diff_text, should, chunks, file_boundaries>>
  /\ UNCHANGED <<language, fs, units, results, merged>>
  /\ UNCHANGED <<clientVars, mainVars, llmVars>>

ExtractFileBoundaries ==
  /\ op = "init"
  /\ op' = "scan"
  /\ file_boundaries' = extract_file_boundaries(diff_text)
  /\ UNCHANGED <<diff_text, max_length, should, chunks, truncated,
                 was_truncated>>
  /\ UNCHANGED <<promptVars, clientVars, mainVars, llmVars>>

Next ==
  \/ ShouldChunk
  \/ ChunkDiff
  \/ TruncateDiffSmartly
  \/ BuildPrompt
  \/ ExtractFileBoundaries

Spec == Init /\ [][Next]_vars

(***************************************************************************)
(* The same operations applied to one-line diffs: a 'diff --git' line      *)
(* whose tokens are separated by one space, several spaces or a tab.       *)
(***************************************************************************)
Separators == {Lit(<<" ">>), Lit(<<" ", " ">>), Lit(<<"\t">>)}

OldPaths == {<<>>, Lit(<<"a">>), Lit(<<"a", "/", "p">>)}

NewPaths == {<<>>, Lit(<<"b">>), Lit(<<"b", "/", "p">>), Lit(<<"q">>)}

DIFF_GIT_WORDS == Lit(<<"d", "i", "f", "f", " ", "-", "-", "g", "i", "t">>)

LineInputs ==
  {Cat(Cat(Cat(Cat(DIFF_GIT_WORDS, s1), a), s2), b) :
     s1 \in Separators, a \in OldPaths, s2 \in Separators, b \in NewPaths}

InitLines ==
  /\ diff_text \in LineInputs
  /\ op = "init"
  /\ max_length = 0
  /\ should = FALSE
  /\ chunks = <<>>
  /\ truncated = <<>>
  /\ was_truncated = FALSE
  /\ file_boundaries = <<>>
  /\ language = "vietnamese"
  /\ fs = InstalledFs
  /\ PromptsIdle
  /\ ClientIdle
  /\ MainIdle
  /\ LlmIdle

SpecLines == InitLines /\ [][Next]_vars

TypeOK ==
  /\ op \in {"init", "should_chunk", "chunk_diff", "truncate", "build_prompt",
            "scan", "build_chunked_prompts", "review", "merge"}
  /\ gh.pc \in {"idle", "fetch_diff", "posting", "returned", "raised"}
  /\ should \in BOOLEAN
  /\ was_truncated \in BOOLEAN

(***************************************************************************)
(* Prompt building and merging: the prompts of a diff are built from the   *)
(* files found on disk, the reviews of the units arrive in any order, some *)
(* may fail, and the reviews that arrived are merged.                      *)
(***************************************************************************)
Languages == {"english", "vietnamese", "french"}

EntryStates == {"absent", "readable", "unreadable"}

Entries(a, b, c) ==
  {RuleFile(1, "md", a = "readable", RULE_A) : x \in {a} \ {"absent"}}
    \cup {RuleFile(2, "md", b = "readable", RULE_B) : x \in {b} \ {"absent"}}
    \cup {RuleFile(3, "txt", TRUE, NOTES_C) : x \in {c} \ {"absent"}}

RuleDirs ==
  {[exists |-> FALSE, entries |-> {}]}
    \cup {[exists |-> TRUE, entries |-> Entries(a, b, c)] :
            a \in EntryStates, b \in EntryStates, c \in {"absent", "readable"}}

FileSystems ==
  {[rule_dir |-> d, templates |-> t] :
     d \in RuleDirs, t \in SUBSET {TEMPLATE_EN, TEMPLATE_VI}}

PromptDiffs ==
  {MakeDiff(0, 0, 0, 0, 0, <<>>),
   MakeDiff(1, 2, 0, 0, 0, <<>>),
   MakeDiff(0, 6, 0, 0, 30001, <<>>),
   MakeDiff(0, 6, 0, 0, 100001, <<>>),
   MakeDiff(0, 6, 19982, 19982, 0, <<>>)}

InitPrompts ==
  /\ diff_text \in PromptDiffs
  /\ op = "init"
  /\ max_length = 0
  /\ should = FALSE
  /\ chunks = <<>>
  /\ truncated = <<>>
  /\ was_truncated = FALSE
  /\ file_boundaries = <<>>
  /\ language \in Languages
  /\ fs \in FileSystems
  /\ PromptsIdle
  /\ ClientIdle
  /\ MainIdle
  /\ LlmIdle

BuildChunkedPrompts ==
  /\ op = "init"
  /\ op' = "build_chunked_prompts"
  /\ units' = build_chunked_prompts(language, fs, diff_text)
  /\ UNCHANGED <<diff_text, max_length, should, chunks, truncated,
                 was_truncated, file_boundaries>>
  /\ UNCHANGED <<language, fs, prompt, results, merged>>
  /\ UNCHANGED <<clientVars, mainVars, llmVars>>

\* the review text the LLM gives for a chunk
ReviewText(chunk) ==
  Cat(Cat(Rep(" ", 1), Rep("r", chunk.chunk_index + 1)), Rep(NL, 1))

\* the units whose LLM call has ended, well or not
Reported == {results[i].chunkIndex : i \in 1..Len(results)}

\* the LLM call of one more unit ends, in any order
ReviewArrives ==
  /\ op \in {"build_chunked_prompts", "review"}
  /\ \E u \in 1..Len(units), ok \in BOOLEAN :
       /\ units[u].chunk.chunk_index \notin Reported
       /\ results' = Append(results,
                            [chunkIndex |-> units[u].chunk.chunk_index,
                             files |-> units[u].chunk.files,
                             reviewText |-> ReviewText(units[u].chunk),
                             ok |-> ok])
  /\ op' = "review"
  /\ UNCHANGED <<diff_text, max_length, should, chunks, truncated,
                 was_truncated, file_boundaries>>
  /\ UNCHANGED <<language, fs, prompt, units, merged>>
  /\ UNCHANGED <<clientVars, mainVars, llmVars>>

\* the reviews that arrived, in arrival order
Arrived == SelectSeq(results, LAMBDA r : r.ok)

Merge ==
  /\ op = "review"
  /\ Len(results) = Len(units)
  /\ Arrived # <<>>
  /\ op' = "merge"
  /\ merged' = merge(Arrived, language)
  /\ UNCHANGED <<diff_text, max_length, should, chunks, truncated,
                 was_truncated, file_boundaries>>
  /\ UNCHANGED <<language, fs, prompt, units, results>>
  /\ UNCHANGED <<clientVars, mainVars, llmVars>>

NextPrompts == BuildPrompt \/ BuildChunkedPrompts \/ ReviewArrives \/ Merge

SpecPrompts == InitPrompts /\ [][NextPrompts]_vars

(***************************************************************************)
(* GitHubClient: one call of fetch_pr_diff or of post_review_chunked, one  *)
(* HTTP request per step.                                                  *)
(***************************************************************************)
\* the lines a review is made of
ReviewLines ==
  {<<>>, Rep("t", 10), Cat(Rep("#", 2), Rep("t", 5)), Rep("t", 30000),
   Rep("t", 70000), Rep(" ", 60000)}

ReviewInputs ==
  UNION {{JoinWith(Rep(NL, 1), ls, 1) : ls \in [1..n -> ReviewLines]} :
           n \in 1..MaxReviewLines}

\* the bodies the diff request can return
DiffBodies ==
  {<<>>, Lit(<<" ", "\n">>), MakeDiff(0, 1, 0, 0, 0, <<>>)}

InitClient ==
  /\ DiffIdle
  /\ language = "vietnamese"
  /\ fs = InstalledFs
  /\ PromptsIdle
  /\ MainIdle
  /\ LlmIdle
  /\ review_text \in ReviewInputs
  /\ gh = ClientFresh
  /\ review_chunks = <<>>
  /\ pending = <<>>
  /\ posted = <<>>

\* requests.get(pr_url, headers=headers_json) and raise_for_status()
GetPrMetadata ==
  /\ gh.pc = "idle"
  /\ \E o \in HttpOutcomes :
       gh' = [gh EXCEPT !.op = "fetch_pr_diff",
                        !.requests = Append(@, [method |-> "GET",
                                                accept |-> "json",
                                                outcome |-> o]),
                        !.pc = IF o = "200" THEN "fetch_diff" ELSE "raised",
                        !.exc = IF o = "200" THEN "" ELSE Escaping(o)]
  /\ UNCHANGED <<review_text, review_chunks, pending, posted>>
  /\ UNCHANGED <<diffVars, promptVars, mainVars, llmVars>>

\* requests.get(pr_url, headers=headers_diff), raise_for_status() and the
\* test for an empty diff
GetPrDiff ==
  /\ gh.pc = "fetch_diff"
  /\ \E o \in HttpOutcomes, body \in DiffBodies :
       LET empty == body = <<>> \/ StrLen(Strip(body)) = 0
       IN gh' = [gh EXCEPT !.requests = Append(@, [method |-> "GET",
                                                   accept |-> "diff",
                                                   outcome |-> o]),
                           !.pc = IF o = "200" /\ ~empty THEN "returned"
                                  ELSE "raised",
                           !.exc = IF o # "200" THEN Escaping(o)
                                   ELSE IF empty THEN "GitHubAPIError"
                                   ELSE "",
                           !.diff = IF o = "200" /\ ~empty THEN body ELSE <<>>]
  /\ UNCHANGED <<review_text, review_chunks, pending, posted>>
  /\ UNCHANGED <<diffVars, promptVars, mainVars, llmVars>>

\* post_review_chunked up to its first request: the review is split and the
\* comment bodies are laid out
PostReviewChunked ==
  /\ gh.pc = "idle"
  /\ review_chunks' = ReviewChunks(review_text, COMMENT_HEADER)
  /\ pending' = CommentBodies(review_text, COMMENT_HEADER)
  /\ gh' = [gh EXCEPT !.op = "post_review_chunked",
                      !.pc = IF pending' = <<>> THEN "returned" ELSE "posting"]
  /\ UNCHANGED <<review_text, posted>>
  /\ UNCHANGED <<diffVars, promptVars, mainVars, llmVars>>

\* NextBody walking the comment bodies from the last to the first
NextBody_from_last(bodies, done) == bodies[Len(bodies) - Len(done)]

\* for i, chunk in enumerate(chunks, 1): the body after those already posted
NextBody(bodies, done) == bodies[Len(done) + 1]

\* post_comment for the next body: requests.post and raise_for_status()
PostComment ==
  /\ gh.pc = "posting"
  /\ \E o \in HttpOutcomes :
       LET body == NextBody(pending, posted)
       IN /\ gh' = [gh EXCEPT !.requests = Append(@, [method |-> "POST",
                                                      accept |-> "json",
                                                      outcome |-> o]),
                              !.pc = IF o # "200" THEN "raised"
                                     ELSE IF Len(posted) + 1 = Len(pending)
                                     THEN "returned" ELSE "posting",
                              !.exc = IF o = "200" THEN "" ELSE Escaping(o)]
          /\ posted' = IF o = "200" THEN Append(posted, body) ELSE posted
  /\ UNCHANGED <<review_text, review_chunks, pending>>
  /\ UNCHANGED <<diffVars, promptVars, mainVars, llmVars>>

NextClient == GetPrMetadata \/ GetPrDiff \/ PostReviewChunked \/ PostComment

SpecClient == InitClient /\ [][NextClient]_vars

(***************************************************************************)
(* main of scripts/ai_review.py: one run, one external request per step.   *)
(***************************************************************************)
Refs ==
  {<<>>,
   Lit(<<"r", "e", "f", "s", "/", "h", "e", "a", "d", "s", "/", "m">>),
   Lit(<<"r", "e", "f", "s", "/", "p", "u", "l", "l", "/", "/", "m">>),
   Lit(<<"r", "e", "f", "s", "/", "p", "u", "l", "l", "/", "4", "/", "m">>)}

RawLanguages == {"unset", "english", "English", "vietnamese", "french"}

Environs ==
  [GITHUB_REF : Refs, GITHUB_TOKEN : BOOLEAN, GITHUB_REPOSITORY : BOOLEAN,
   GEMINI_API_KEY : BOOLEAN, OPENROUTER_API_KEY : BOOLEAN,
   REVIEW_LANGUAGE : RawLanguages]

\* the diffs GitHub can return to main
MainDiffs ==
  {<<>>, MakeDiff(0, 1, 0, 0, 0, <<>>),
   MakeDiff(0, 6, 19982, 19982, 0, <<>>)}

\* the reviews the LLM can return to main
MainReviews ==
  {Cat(Rep("t", 10), Rep(NL, 1)),
   JoinWith(Rep(NL, 1), <<Rep("t", 30000), Rep("t", 30000), Rep("t", 10)>>, 1)}

InitMain ==
  /\ DiffIdle
  /\ language = "vietnamese"
  /\ fs = InstalledFs
  /\ PromptsIdle
  /\ ClientIdle
  /\ LlmIdle
  /\ environ \in Environs
  /\ run = RunFresh

Exit(code, fatal) ==
  [run EXCEPT !.pc = "exit", !.exit_code = code, !.fatal = fatal]

\* Preflight without the test of GITHUB_TOKEN
Preflight_no_token_check(pr_number, env) ==
  IF ~pr_number.found \/ pr_number.value = <<>> THEN "no_pr"
  ELSE IF ~env.GITHUB_REPOSITORY THEN "config"
  ELSE "go"

\* the tests of main before its first request: if not pr_number,
\* if not GITHUB_TOKEN, if not REPO
Preflight(pr_number, env) ==
  IF ~pr_number.found \/ pr_number.value = <<>> THEN "no_pr"
  ELSE IF ~env.GITHUB_TOKEN THEN "config"
  ELSE IF ~env.GITHUB_REPOSITORY THEN "config"
  ELSE "go"

\* main up to its first request: PR number, token and repository
MainStart ==
  /\ run.pc = "start"
  /\ LET preflight == Preflight(get_pr_number_from_ref(environ.GITHUB_REF),
                                environ)
     IN run' = IF preflight = "no_pr" THEN Exit(0, "")
               ELSE IF preflight = "config" THEN Exit(1, "config")
               ELSE [run EXCEPT !.pc = "fetch"]
  /\ UNCHANGED <<environ, diffVars, promptVars, clientVars, llmVars>>

\* fetch_pr_diff, first request; any exception ends main with exit code 1
MainFetchMetadata ==
  /\ run.pc = "fetch"
  /\ \E o \in HttpOutcomes :
       LET called == [run EXCEPT !.calls = Append(@, [kind |-> "GET",
                                                      what |-> "metadata",
                                                      outcome |-> o])]
       IN run' = IF o = "200" THEN [called EXCEPT !.pc = "fetch_diff"]
                 ELSE [called EXCEPT !.pc = "exit", !.exit_code = 1,
                                     !.fatal = "fetch"]
  /\ UNCHANGED <<environ, diffVars, promptVars, clientVars, llmVars>>

\* fetch_pr_diff, second request and the test for an empty diff
MainFetchDiff ==
  /\ run.pc = "fetch_diff"
  /\ \E o \in HttpOutcomes, body \in MainDiffs :
       LET called == [run EXCEPT !.calls = Append(@, [kind |-> "GET",
                                                      what |-> "diff",
                                                      outcome |-> o])]
       IN run' = IF o = "200" /\ StrLen(Strip(body)) > 0
                 THEN [called EXCEPT !.pc = "llm", !.diff = body]
                 ELSE [called EXCEPT !.pc = "exit", !.exit_code = 1,
                                     !.fatal = "fetch"]
  /\ UNCHANGED <<environ, diffVars, promptVars, clientVars, llmVars>>

\* build_prompt and call_gemini: one call for the first 12000 characters of
\* the diff; without an API key call_gemini raises before any request
MainCallGemini ==
  /\ run.pc = "llm"
  /\ IF ~environ.GEMINI_API_KEY
     THEN run' = [run EXCEPT !.pc = "fallback", !.fatal = "llm"]
     ELSE \E review \in MainReviews, ok \in BOOLEAN :
            LET called ==
                  [run EXCEPT !.calls = Append(@, [kind |-> "LLM",
                                                   what |-> "review",
                                                   outcome |-> IF ok THEN "200"
                                                               ELSE "failed"])]
            IN run' = IF ok
                      THEN [called EXCEPT
                              !.pc = "post",
                              !.reviewed = Take(run.diff, LEGACY_DIFF_LIMIT),
                              !.to_post = CommentBodies(Strip(review),
                                                        GEMINI_HEADER)]
                      ELSE [called EXCEPT !.pc = "fallback", !.fatal = "llm"]
  /\ UNCHANGED <<environ, diffVars, promptVars, clientVars, llmVars>>

\* the fallback comment after a failed LLM call; its own failure is ignored
MainPostFallback ==
  /\ run.pc = "fallback"
  /\ \E o \in HttpOutcomes :
       run' = [run EXCEPT !.calls = Append(@, [kind |-> "POST",
                                               what |-> "fallback",
                                               outcome |-> o]),
                          !.pc = "exit", !.exit_code = 1]
  /\ UNCHANGED <<environ, diffVars, promptVars, clientVars, llmVars>>

\* the review comments already accepted by GitHub
ReviewPosts ==
  {i \in 1..Len(run.calls) :
     run.calls[i].kind = "POST" /\ run.calls[i].what = "review"
       /\ run.calls[i].outcome = "200"}

\* post_pr_comments_chunked: the next comment of the review
MainPostReview ==
  /\ run.pc = "post"
  /\ \E o \in HttpOutcomes :
       LET called == [run EXCEPT !.calls = Append(@, [kind |-> "POST",
                                                      what |-> "review",
                                                      outcome |-> o])]
       IN run' = IF o # "200"
                 THEN [called EXCEPT !.pc = "exit", !.exit_code = 1,
                                     !.fatal = "post"]
                 ELSE IF Cardinality(ReviewPosts) + 1 = Len(run.to_post)
                 THEN [called EXCEPT !.pc = "exit", !.exit_code = 0]
                 ELSE called
  /\ UNCHANGED <<environ, diffVars, promptVars, clientVars, llmVars>>

NextMain ==
  \/ MainStart
  \/ MainFetchMetadata
  \/ MainFetchDiff
  \/ MainCallGemini
  \/ MainPostFallback
  \/ MainPostReview

SpecMain == InitMain /\ [][NextMain]_vars

(***************************************************************************)
(* OpenRouterClient: generate_review and the retry loop of                 *)
(* _try_model_with_retry, one step per attempt.  A review is None or a     *)
(* string; the history of the call keeps the outcome of every HTTP request,*)
(* every delay announced in a 'retrying in Ns' message and every delay     *)
(* slept.                                                                  *)
(***************************************************************************)
NoReview == [some |-> FALSE, text |-> <<>>]

Review(t) == [some |-> TRUE, text |-> t]

\* Python truthiness of a value that is None or a str
Truthy(review) == review.some /\ StrLen(review.text) > 0

LlmContent == Rep("r", 5)

\* what one POST to the chat-completions endpoint can produce: a transport
\* exception, a non-200 status, or status 200 with one of these bodies
LlmStatusErrors == {"401", "402", "403", "500"}

LlmBodies ==
  {"not_json", "not_dict", "error_object", "no_choices", "choice_not_dict",
   "message_not_dict", "null_content", "empty_content", "content"}

LlmOutcomes ==
  {"429", "Timeout", "ConnectionError"} \cup LlmStatusErrors \cup LlmBodies

\* response.json() on a body that is not JSON raises
\* requests.exceptions.JSONDecodeError, which is a RequestException in
\* requests 2.27 and later and a plain ValueError in the earlier releases
JsonErrors == {"RequestException", "ValueError"}

\* one pass through the body of the loop after the request: "retryable" for
\* the branches that test attempt < MAX_RETRIES, "raise" for an
\* OpenRouterAPIError, "return" for a returned value
Attempt(o, json_error) ==
  CASE o \in {"429", "Timeout", "ConnectionError"} ->
         [kind |-> "retryable", review |-> NoReview]
    [] o \in LlmStatusErrors -> [kind |-> "raise", review |-> NoReview]
    [] o = "not_json" ->
         IF json_error = "RequestException"
         THEN [kind |-> "retryable", review |-> NoReview]
         ELSE [kind |-> "raise", review |-> NoReview]
    [] o \in {"not_dict", "error_object", "choice_not_dict",
              "message_not_dict"} -> [kind |-> "raise", review |-> NoReview]
    [] o \in {"no_choices", "null_content", "empty_content"} ->
         [kind |-> "return", review |-> NoReview]
    [] o = "content" -> [kind |-> "return", review |-> Review(LlmContent)]

Raised(st) ==
  [st EXCEPT !.pc = "raised", !.exc = "OpenRouterAPIError"]

ReviewOutcome_unchecked(st, review) ==
  [st EXCEPT !.pc = "returned", !.review = review]

\* generate_review after _try_model_with_retry returned
ReviewOutcome(st, review) ==
  IF Truthy(review)
  THEN [st EXCEPT !.pc = "returned", !.review = review]
  ELSE Raised(st)

\* the retry branch: announce the delay, multiply it, continue
Retry(st) ==
  [st EXCEPT !.announced = Append(@, st.retry_delay),
             !.retry_delay = @ * RETRY_BACKOFF_MULTIPLIER,
             !.attempt = @ + 1]

\* the top of an iteration: sleep before every attempt but the first
Sleep(st) ==
  IF st.attempt > 0
  THEN [st EXCEPT !.slept = Append(@, st.retry_delay)]
  ELSE st

InitLLM ==
  /\ language = "vietnamese"
  /\ fs = InstalledFs
  /\ DiffIdle
  /\ PromptsIdle
  /\ ClientIdle
  /\ MainIdle
  /\ LlmIdle

GenerateReview ==
  /\ openrouter.pc = "idle"
  /\ openrouter' = [openrouter EXCEPT !.pc = "loop", !.attempt = 0,
                                      !.retry_delay = INITIAL_RETRY_DELAY]
  /\ UNCHANGED <<diffVars, promptVars, clientVars, mainVars>>

TryModel ==
  /\ openrouter.pc = "loop"
  /\ openrouter.attempt <= MAX_RETRIES
  /\ \E o \in LlmOutcomes, json_error \in JsonErrors :
       LET st == [Sleep(openrouter) EXCEPT !.requests = Append(@, o)]
           a == Attempt(o, json_error)
       IN openrouter' =
            CASE a.kind = "retryable" /\ st.attempt < MAX_RETRIES -> Retry(st)
              [] a.kind = "retryable" /\ st.attempt >= MAX_RETRIES -> Raised(st)
              [] a.kind = "raise" -> Raised(st)
              [] a.kind = "return" -> ReviewOutcome(st, a.review)
  /\ UNCHANGED <<diffVars, promptVars, clientVars, mainVars>>

NextLLM == GenerateReview \/ TryModel

SpecLLM == InitLLM /\ [][NextLLM]_vars

(***************************************************************************)
(* Vocabulary of the properties.                                           *)
(***************************************************************************)
\* the lines of the diff that begin with 'diff --git ', as 1-based indices
DelimiterLines ==
  LET lines == Split(diff_text, NL)
  IN {i \in 1..Len(lines) : StartsWith(lines[i], DIFF_GIT)}

FileCount == Cardinality(DelimiterLines)

DiffLength == StrLen(diff_text)

Boundaries == extract_file_boundaries(diff_text)

BoundaryOffsets == {Boundaries[i].position : i \in 1..Len(Boundaries)}

ScannerPaths == [i \in 1..Len(Boundaries) |-> Boundaries[i].file_path]

ChunkContents == [k \in 1..Len(chunks) |-> chunks[k].content]

\* chunk k is the characters s..e-1 of the diff
ChunkIs(k, s, e) == s <= e /\ chunks[k].content = Slice(diff_text, s, e)

\* u is t[:k] for some k and t[k:] is whitespace only
IsRightTrimOf(u, t) ==
  /\ u = Take(t, StrLen(u))
  /\ LET dropped == Drop(t, StrLen(u))
     IN \A r \in 1..Len(dropped) : dropped[r].c \in Whitespace

\* the diff is longer than max_length and has no delimiter line, or its
\* first boundary lies at max_length or later
RawCutCase ==
  /\ DiffLength > max_length
  /\ LET offs == BoundaryOffsets
     IN offs = {} \/ \A p \in offs : p >= max_length

\* the diff is longer than max_length and no file is includable: no next
\* boundary lies within max_length and the last boundary does not lie before it
NoFileFits ==
  /\ DiffLength > max_length
  /\ LET bs == Boundaries
     IN \A i \in 1..Len(bs) :
          IF i < Len(bs) THEN bs[i + 1].position > max_length
          ELSE bs[i].position >= max_length

\* the offsets at which a line of the diff starts: 0 and right after a newline
LineStarts ==
  {0} \cup UNION {RunChars(diff_text, 1, j - 1) + 1 .. RunChars(diff_text, 1, j) :
                   j \in {r \in 1..Len(diff_text) : diff_text[r].c = NL}}

\* the line starts at which the text reads 'diff --git '
DelimiterOffsets ==
  {p \in LineStarts : StartsWith(Drop(diff_text, p), DIFF_GIT)}

\* the maximal runs of non-whitespace characters of a line, in order
RECURSIVE TokensFrom(_, _, _)
TokensFrom(t, i, cur) ==
  IF i > Len(t) THEN (IF cur = <<>> THEN <<>> ELSE <<cur>>)
  ELSE IF t[i].c \in Whitespace
       THEN (IF cur = <<>> THEN <<>> ELSE <<cur>>) \o TokensFrom(t, i + 1, <<>>)
       ELSE TokensFrom(t, i + 1, cur \o <<t[i]>>)

Tokens(t) == TokensFrom(t, 1, <<>>)

\* the fourth token without a leading 'b/', 'unknown' when there is none
FourthToken(line) ==
  LET toks == Tokens(line)
      tok == IF Len(toks) >= 4 THEN toks[4] ELSE UNKNOWN
  IN IF StartsWith(tok, B_SLASH) THEN Drop(tok, 2) ELSE tok

\* u is t without the whitespace at its two ends
IsTrimOf(u, t) ==
  /\ \E a, b \in 0..StrLen(t) : a <= b /\ u = Slice(t, a, b)
                                /\ \A i \in 1..Len(t) :
                                     t[i].c \notin Whitespace =>
                                       \E j \in 1..Len(u) : u[j] = t[i]
  /\ u # <<>> => u[1].c \notin Whitespace /\ u[Len(u)].c \notin Whitespace

\* the contents of the '.md' files of the rule directory that can be read,
\* in name order
LoadableRules ==
  LET md == {f \in fs.rule_dir.entries : f.name.ext = "md" /\ f.readable}
      names == SortedNames({f.name : f \in md})
  IN IF ~fs.rule_dir.exists THEN <<>>
     ELSE [i \in 1..Len(names) |->
             (CHOOSE f \in md : f.name = names[i]).content]

\* the run has a PR number
HasPrNumber ==
  LET pr_number == get_pr_number_from_ref(environ.GITHUB_REF)
  IN pr_number.found /\ pr_number.value # <<>>

\* the units of work of a diff: its chunks, or the whole diff
UnitsOf(text) == IF should_chunk(text) THEN Len(chunk_diff(text)) ELSE 1

(***************************************************************************)
(* C1  Round trip of chunk_diff: the contents of the returned chunks,      *)
(* concatenated in chunk_index order, are exactly the diff text.           *)
(***************************************************************************)
C1_RoundTrip ==
  op = "chunk_diff" => Join(ChunkContents) = diff_text

(***************************************************************************)
(* C2  No file split: every chunk starts at offset 0 or at a file boundary *)
(* offset and ends at a file boundary offset or at the end of the diff,    *)
(* and the next chunk starts where it ends.                                *)
(***************************************************************************)
C2_NoFileSplit ==
  op = "chunk_diff" =>
    LET starts == {0} \cup BoundaryOffsets
        ends == BoundaryOffsets \cup {DiffLength}
    IN \A k \in 1..Len(chunks) :
         \E s \in starts :
           \E e \in ends :
             /\ ChunkIs(k, s, e)
             /\ k < Len(chunks) => \E e2 \in ends : ChunkIs(k + 1, e, e2)

C2_Witness ==
  /\ op = "chunk_diff"
  /\ Len(chunks) >= 3
  /\ \E k \in 1..Len(chunks) : Len(chunks[k].files) >= 2

(***************************************************************************)
(* C3  Policy threshold as stated: 5 files and 30,001 characters chunk,    *)
(* 5 files and 29,999 characters do not, 6 files and 100 characters chunk. *)
(***************************************************************************)
C3_Original ==
  op = "should_chunk" =>
    /\ (FileCount = 5 /\ DiffLength = 30001) => should
    /\ (FileCount = 5 /\ DiffLength = 29999) => ~should
    /\ (FileCount = 6 /\ DiffLength = 100) => should

(***************************************************************************)
(* C3 amended  should_chunk returns true only when both thresholds are     *)
(* exceeded: 5 files and 30,001 characters do not chunk, 5 files and       *)
(* 29,999 characters do not, 6 files and 100 characters do not, and 6      *)
(* files and 30,001 characters do.                                         *)
(***************************************************************************)
C3_Amended ==
  op = "should_chunk" =>
    /\ (FileCount = 5 /\ DiffLength = 30001) => ~should
    /\ (FileCount = 5 /\ DiffLength = 29999) => ~should
    /\ (FileCount = 6 /\ DiffLength = 100) => ~should
    /\ (FileCount = 6 /\ DiffLength = 30001) => should

C3_Witness ==
  /\ op = "should_chunk"
  /\ FileCount = 6
  /\ DiffLength = 100
  /\ ~should

(***************************************************************************)
(* C4  ChunkPolicy contract: should_chunk is false exactly when the diff   *)
(* has at most 5 'diff --git ' lines or at most 30000 characters.          *)
(***************************************************************************)
C4_ChunkPolicy ==
  op = "should_chunk" =>
    (should <=> ~(FileCount <= SINGLE_PASS_FILE_THRESHOLD
                  \/ DiffLength <= SINGLE_PASS_CHAR_THRESHOLD))

C4_Witness ==
  /\ op = "should_chunk"
  /\ should
  /\ FileCount = SINGLE_PASS_FILE_THRESHOLD + 1
  /\ DiffLength = SINGLE_PASS_CHAR_THRESHOLD + 1

(***************************************************************************)
(* C5  Truncation safety as stated: the length of the text returned by     *)
(* _truncate_diff_smartly is the original length or exactly the offset of  *)
(* a file boundary.                                                        *)
(***************************************************************************)
C5_Original ==
  op = "truncate" =>
    StrLen(truncated) \in {DiffLength} \cup BoundaryOffsets

(***************************************************************************)
(* C5 amended  The text returned by _truncate_diff_smartly is the diff cut *)
(* at its original length or exactly at a file boundary offset, with the   *)
(* whitespace at the end of that cut trimmed (a diff within max_length is  *)
(* returned unchanged); only when the diff is longer than max_length and   *)
(* no file is includable is it the raw cut at max_length instead.          *)
(***************************************************************************)
C5_Amended ==
  op = "truncate" =>
    /\ DiffLength <= max_length => truncated = diff_text
    /\ IF NoFileFits
       THEN truncated = Take(diff_text, max_length)
       ELSE LET cuts == {DiffLength} \cup BoundaryOffsets
            IN \E cut \in cuts :
                 IsRightTrimOf(truncated, Take(diff_text, cut))

C5_Witness ==
  /\ op = "truncate"
  /\ ~NoFileFits
  /\ was_truncated
  /\ StrLen(truncated) > 0
  /\ StrLen(truncated) \notin BoundaryOffsets
  /\ \E cut \in BoundaryOffsets : cut > StrLen(truncated)

(***************************************************************************)
(* C6  Length budget: the text returned by _truncate_diff_smartly, and so  *)
(* the diff build_prompt places in the prompt, has at most max_length      *)
(* characters.                                                             *)
(***************************************************************************)
C6_LengthBudget ==
  op \in {"truncate", "build_prompt"} => StrLen(truncated) <= max_length

(***************************************************************************)
(* C7  Chunk size cap: on the multi-chunk path a chunk longer than         *)
(* MAX_CHUNK_SIZE holds exactly one file, so every chunk of two or more    *)
(* files has at most MAX_CHUNK_SIZE characters.                            *)
(***************************************************************************)
C7_ChunkSizeCap ==
  (op = "chunk_diff" /\ FileCount > SINGLE_PASS_FILE_THRESHOLD
     /\ DiffLength > SINGLE_PASS_CHAR_THRESHOLD) =>
    LET bs == Boundaries
    IN \A k \in 1..Len(chunks) :
         /\ Len(chunks[k].files) >= 2 =>
              StrLen(chunks[k].content) <= MAX_CHUNK_SIZE
         /\ StrLen(chunks[k].content) > MAX_CHUNK_SIZE =>
              /\ Len(chunks[k].files) = 1
              /\ \E i \in 1..Len(bs) :
                   chunks[k].content = FileDiff(diff_text, bs, i)

C7_Witness ==
  /\ op = "chunk_diff"
  /\ FileCount > SINGLE_PASS_FILE_THRESHOLD
  /\ DiffLength > SINGLE_PASS_CHAR_THRESHOLD
  /\ \E k \in 1..Len(chunks) :
       Len(chunks[k].files) >= 2 /\ StrLen(chunks[k].content) = MAX_CHUNK_SIZE
  /\ \E k \in 1..Len(chunks) : Len(chunks[k].files) = 1

(***************************************************************************)
(* C8  Single-chunk path as stated: a diff of at most 5 files and at most  *)
(* 30000 characters gives one chunk holding the whole diff, index 0 of 1,  *)
(* whose files list is the scanner's ordered path list.                    *)
(***************************************************************************)
C8_Original ==
  (op = "chunk_diff" /\ FileCount <= SINGLE_PASS_FILE_THRESHOLD
     /\ DiffLength <= SINGLE_PASS_CHAR_THRESHOLD) =>
    /\ Len(chunks) = 1
    /\ chunks[1].content = diff_text
    /\ chunks[1].chunk_index = 0
    /\ chunks[1].total_chunks = 1
    /\ chunks[1].files = ScannerPaths

(***************************************************************************)
(* C8 amended  The same, except that for a diff with no 'diff --git '      *)
(* line (the empty diff included) the files list is ["unknown"] and not    *)
(* the scanner's empty list.                                               *)
(***************************************************************************)
C8_Amended ==
  (op = "chunk_diff" /\ FileCount <= SINGLE_PASS_FILE_THRESHOLD
     /\ DiffLength <= SINGLE_PASS_CHAR_THRESHOLD) =>
    /\ Len(chunks) = 1
    /\ chunks[1].content = diff_text
    /\ chunks[1].chunk_index = 0
    /\ chunks[1].total_chunks = 1
    /\ chunks[1].files =
         (IF FileCount = 0 THEN <<UNKNOWN>> ELSE ScannerPaths)

C8_Witness ==
  /\ op = "chunk_diff"
  /\ FileCount = 0
  /\ DiffLength <= SINGLE_PASS_CHAR_THRESHOLD
  /\ chunks = <<DiffChunk(diff_text, <<UNKNOWN>>, 0, 1)>>
  /\ ScannerPaths = <<>>

C10_Fallback ==
  (op = "truncate" /\ RawCutCase) =>
    /\ truncated = Take(diff_text, max_length)
    /\ StrLen(truncated) = max_length
    /\ was_truncated

C10_Witness ==
  /\ op = "truncate"
  /\ RawCutCase
  /\ BoundaryOffsets # {}
  /\ max_length > 0
  /\ truncated = Take(diff_text, max_length)
  /\ was_truncated

(***************************************************************************)
(* C11  Chunk file lists hold no duplicates: in every chunk returned by    *)
(* chunk_diff no path occurs twice in the files list.                      *)
(***************************************************************************)
C11_NoDuplicateFiles ==
  op = "chunk_diff" =>
    \A k \in 1..Len(chunks) :
      \A i, j \in 1..Len(chunks[k].files) :
        i # j => chunks[k].files[i] # chunks[k].files[j]

(***************************************************************************)
(* C12  Scanner invariant: _extract_file_boundaries returns exactly one    *)
(* record per line beginning with 'diff --git ', in order of appearance    *)
(* and with strictly increasing positions, and each position is the exact  *)
(* character offset at which that line starts (offset 0 or right after a   *)
(* newline); the list is empty when the diff has no such line.             *)
(***************************************************************************)
C12_ScannerInvariant ==
  op = "scan" =>
    LET offsets == DelimiterOffsets
    IN /\ Len(file_boundaries) = FileCount
       /\ Len(file_boundaries) = Cardinality(offsets)
       /\ \A i \in 1..Len(file_boundaries) : file_boundaries[i].position \in offsets
       /\ \A i \in 1..Len(file_boundaries) - 1 :
            /\ file_boundaries[i].position < file_boundaries[i + 1].position
            /\ file_boundaries[i].line_num < file_boundaries[i + 1].line_num
       /\ FileCount = 0 => file_boundaries = <<>>

C12_Witness ==
  /\ op = "scan"
  /\ Len(file_boundaries) >= 3
  /\ file_boundaries[1].position > 0
  /\ StrLen(diff_text) > MAX_CHUNK_SIZE

(***************************************************************************)
(* C13  Path extraction: for every delimiter line the recorded file path   *)
(* is the fourth whitespace-delimited token of the line with a leading     *)
(* 'b/' removed, and 'unknown' when the line has fewer than four tokens,   *)
(* also when tokens are separated by several spaces or by a tab.           *)
(***************************************************************************)
C13_PathExtraction ==
  op = "scan" =>
    LET lines == Split(diff_text, NL)
    IN \A i \in 1..Len(file_boundaries) :
         file_boundaries[i].file_path = FourthToken(lines[file_boundaries[i].line_num + 1])

C18_StaticFallback ==
  op \in {"build_prompt", "build_chunked_prompts"} =>
    LET built == IF op = "build_prompt" THEN {prompt}
                 ELSE {units[u].prompt : u \in 1..Len(units)}
        loadable == LoadableRules
        wanted == IF language = "english" THEN TEMPLATE_EN ELSE TEMPLATE_VI
    IN /\ built # {}
       /\ NoPrompt \notin built
       /\ \A p \in built :
            /\ (p.coding_rules = FALLBACK_RULES) <=> (loadable = <<>>)
            /\ loadable # <<>> =>
                 p.coding_rules = JoinWith(RULE_SEPARATOR, loadable, 1)
            /\ p.template =
                 IF wanted \in fs.templates THEN wanted ELSE FALLBACK_TEMPLATE

C18_Witness ==
  /\ op = "build_chunked_prompts"
  /\ Len(units) >= 2
  /\ \E f \in fs.rule_dir.entries : f.name.ext = "md" /\ ~f.readable
  /\ \A f \in fs.rule_dir.entries : f.name.ext = "md" => ~f.readable
  /\ fs.templates = {}
  /\ units[2].prompt.coding_rules = FALLBACK_RULES
  /\ units[2].prompt.template = FALLBACK_TEMPLATE

(***************************************************************************)
(* C19  Comment size limit: each chunk returned by                         *)
(* _split_review_into_chunks has at most safe_limit characters, so every   *)
(* comment body sent by post_review_chunked (header, optional part label   *)
(* and chunk) has at most MAX_COMMENT_LENGTH (60000) characters, also when *)
(* the review contains one very long line.                                 *)
(***************************************************************************)
C19_CommentSizeLimit ==
  gh.op = "post_review_chunked" =>
    /\ \A k \in 1..Len(review_chunks) :
         StrLen(review_chunks[k]) <= SafeLimit(COMMENT_HEADER)
    /\ \A k \in 1..Len(pending) : StrLen(pending[k]) <= MAX_COMMENT_LENGTH

(***************************************************************************)
(* C20  GitHub fetch outcome: fetch_pr_diff either returns a diff that is  *)
(* non-empty after trimming whitespace or raises GitHubAPIError; no        *)
(* failure of either request (404, 401, other status, connection failure,  *)
(* timeout) and no empty diff lets another exception type escape.          *)
(***************************************************************************)
C20_FetchOutcome ==
  gh.op = "fetch_pr_diff" =>
    /\ gh.pc = "returned" => Strip(gh.diff) # <<>>
    /\ gh.pc = "raised" => gh.exc = "GitHubAPIError"

(***************************************************************************)
(* C14  Unsupported language is fatal before any external call: when the   *)
(* language selector, compared case-insensitively, is neither 'english'    *)
(* nor 'vietnamese', the run makes no GitHub and no LLM request and, when  *)
(* it has a PR number, ends with a configuration error.                    *)
(***************************************************************************)
C14_UnsupportedLanguageFatal ==
  (\E i \in 1..Len(validate(environ)) :
     validate(environ)[i] = "Invalid REVIEW_LANGUAGE") =>
    /\ run.calls = <<>>
    /\ run.pc = "exit" /\ HasPrNumber =>
         run.exit_code = 1 /\ run.fatal = "config"

(***************************************************************************)
(* C15  No silent fatal failure: in every run of main with a PR number, a  *)
(* token and a repository, a failed diff fetch, a failed LLM call and a    *)
(* failed comment post each lead to an attempt to post a comment that      *)
(* describes the failure before the process exits with a non-zero code.    *)
(***************************************************************************)
C15_NoSilentFatalFailure ==
  run.pc = "exit" /\ run.fatal \in {"fetch", "llm", "post"} =>
    /\ run.exit_code # 0
    /\ \E i \in 1..Len(run.calls) :
         run.calls[i].kind = "POST" /\ run.calls[i].what = "fallback"

(***************************************************************************)
(* C16  Chunk review failure policy: when the LLM call for the first unit  *)
(* of work fails, the fallback notice is the only comment attempted; when  *)
(* it succeeds, every later chunk of the diff is sent to the LLM as well   *)
(* (a failed one is skipped, the others are still reviewed) and the        *)
(* reviews of the successful chunks are posted.                            *)
(***************************************************************************)
C16_ChunkFailurePolicy ==
  run.pc = "exit" =>
    LET llm == {i \in 1..Len(run.calls) : run.calls[i].kind = "LLM"}
        posts == {i \in 1..Len(run.calls) : run.calls[i].kind = "POST"}
    IN /\ run.fatal = "llm" =>
            /\ Cardinality(posts) = 1
            /\ \A i \in posts : run.calls[i].what = "fallback"
       /\ (llm # {} /\ run.fatal # "llm") =>
            /\ Cardinality(llm) = UnitsOf(run.diff)
            /\ posts # {}
            /\ \A i \in posts : run.calls[i].what = "review"

C22_RetryDispatch ==
  LET n == Len(openrouter.requests)
      retried == IF openrouter.pc = "loop" THEN n ELSE n - 1
  IN /\ retried <= MAX_RETRIES
     /\ \A i \in 1..retried :
          openrouter.requests[i] \in {"429", "Timeout", "ConnectionError"}

(***************************************************************************)
(* C23  Backoff delays: the i-th wait of a call is INITIAL_RETRY_DELAY     *)
(* times RETRY_BACKOFF_MULTIPLIER to the power i - 1 (5 s, then 10 s), and *)
(* it equals the delay announced by the 'retrying in Ns' message before it.*)
(***************************************************************************)
C23_BackoffDelays ==
  \A i \in 1..Len(openrouter.slept) :
    /\ openrouter.slept[i] =
         INITIAL_RETRY_DELAY * RETRY_BACKOFF_MULTIPLIER ^ (i - 1)
    /\ openrouter.slept[i] = openrouter.announced[i]

\* the chunks come from the packing loop of chunk_diff
MultiChunkPath ==
  /\ op = "chunk_diff"
  /\ FileCount > SINGLE_PASS_FILE_THRESHOLD
  /\ DiffLength > SINGLE_PASS_CHAR_THRESHOLD

\* the number of files in the chunks before chunk k
RECURSIVE FilesBefore(_)
FilesBefore(k) ==
  IF k <= 1 THEN 0 ELSE FilesBefore(k - 1) + Len(chunks[k - 1].files)

\* the files of all chunks, in chunk order
RECURSIVE FilesUpTo(_)
FilesUpTo(k) ==
  IF k <= 0 THEN <<>> ELSE FilesUpTo(k - 1) \o chunks[k].files

(***************************************************************************)
(* C24  Greedy packing: on the multi-chunk path a chunk ends before file i *)
(* exactly when the length packed so far in the running chunk plus the     *)
(* length of file i's segment is more than MAX_CHUNK_SIZE; so the length   *)
(* of a chunk plus the first file segment of the next chunk is more than   *)
(* MAX_CHUNK_SIZE, and a file that still fits stays in the running chunk.  *)
(***************************************************************************)
C24_GreedyPacking ==
  MultiChunkPath =>
    LET bs == Boundaries
        n == Len(bs)
        Start(i) == bs[i].position
        End(i) == IF i < n THEN bs[i + 1].position ELSE DiffLength
        firsts == {FilesBefore(k) + 1 : k \in 1..Len(chunks)}
        Opened(i) == CHOOSE f \in firsts :
                       f < i /\ \A g \in firsts : g < i => g <= f
    IN /\ 1 \in firsts
       /\ \A i \in 2..n :
            i \in firsts <=>
              (Start(i) - Start(Opened(i))) + (End(i) - Start(i))
                > MAX_CHUNK_SIZE
       /\ \A k \in 1..Len(chunks) - 1 :
            LET f == FilesBefore(k + 1) + 1
            IN /\ f \in 2..n
               /\ StrLen(chunks[k].content) + (End(f) - Start(f))
                    > MAX_CHUNK_SIZE

\* some file was kept in a running chunk and some file opened a new one
C24_Witness ==
  /\ MultiChunkPath
  /\ Len(chunks) >= 2
  /\ \E k \in 1..Len(chunks) : Len(chunks[k].files) >= 3
  /\ \E k \in 1..Len(chunks) : Len(chunks[k].files) = 1

(***************************************************************************)
(* C27  Files are partitioned across chunks: on the multi-chunk path every *)
(* chunk has content and at least one file, and the files lists of the     *)
(* chunks, concatenated in index order, are the scanner's list of paths.   *)
(***************************************************************************)
C27_FilesPartitioned ==
  MultiChunkPath =>
    /\ \A k \in 1..Len(chunks) :
         /\ chunks[k].content # <<>>
         /\ Len(chunks[k].files) >= 1
         /\ chunks[k].chunk_index = k - 1
    /\ FilesUpTo(Len(chunks)) = ScannerPaths

C27_Witness ==
  /\ MultiChunkPath
  /\ Len(chunks) >= 3
  /\ \E k \in 1..Len(chunks) : Len(chunks[k].files) >= 2
  /\ Len(ScannerPaths) = MaxFiles

(***************************************************************************)
(* C25  Chunk banner: when build_chunked_prompts works on N >= 2 chunks,   *)
(* the diff section of the i-th prompt is a banner naming part i of N      *)
(* (chunk_index + 1) and listing the files of that chunk, then the part    *)
(* note, then the chunk's content, and the chunk carries chunk_index       *)
(* i - 1 and total_chunks N; with one chunk get_header returns the empty   *)
(* string and the diff section has neither banner nor part note.           *)
(***************************************************************************)
C25_ChunkBanner ==
  op = "build_chunked_prompts" =>
    LET N == Len(units)
    IN /\ N >= 2 =>
            \A i \in 1..N :
              LET u == units[i]
                  section == u.prompt.code_diff
              IN /\ u.chunk.chunk_index = i - 1
                 /\ u.chunk.total_chunks = N
                 /\ section.header.present
                 /\ section.header.part = i
                 /\ section.header.of = N
                 /\ section.header.files = u.chunk.files
                 /\ section.header.language = TextLanguage(language)
                 /\ section.content = u.chunk.content
       /\ N = 1 =>
            /\ get_header(units[1].chunk, language) = NoText
            /\ ~units[1].prompt.code_diff.header.present
            /\ ~units[1].prompt.code_diff.info.present

\* three chunks, one of them with two files in its banner
C25_Witness ==
  /\ op = "build_chunked_prompts"
  /\ Len(units) >= 3
  /\ \E i \in 1..Len(units) :
       /\ i >= 2
       /\ Len(units[i].prompt.code_diff.header.files) >= 2

(***************************************************************************)
(* C29  Prompt units agree with the chunker, as stated:                    *)
(* build_chunked_prompts returns one pair per chunk of chunk_diff, in      *)
(* order, and each returned chunk equals the chunk of chunk_diff (content, *)
(* files, chunk_index, total_chunks), on both paths.                       *)
(***************************************************************************)
C29_Original ==
  op = "build_chunked_prompts" =>
    LET cs == chunk_diff(diff_text)
    IN /\ Len(units) = Len(cs)
       /\ \A i \in 1..Len(units) : units[i].chunk = cs[i]

(***************************************************************************)
(* C29 amended  On the multi-chunk path build_chunked_prompts returns one  *)
(* pair per chunk of chunk_diff, in order, each with the chunker's chunk;  *)
(* on the single-pass path it returns one pair whose chunk has the content,*)
(* chunk_index 0 and total_chunks 1 of the chunker's single chunk, and the *)
(* files list ["all"] in place of the chunker's files.                     *)
(***************************************************************************)
C29_Amended ==
  op = "build_chunked_prompts" =>
    LET cs == chunk_diff(diff_text)
    IN /\ Len(units) = Len(cs)
       /\ should_chunk(diff_text) =>
            \A i \in 1..Len(units) : units[i].chunk = cs[i]
       /\ ~should_chunk(diff_text) =>
            /\ Len(units) = 1
            /\ units[1].chunk = [cs[1] EXCEPT !.files = <<ALL>>]
            /\ units[1].chunk.content = diff_text

\* a single-pass diff with files, whose unit names the files ["all"]
C29_Witness ==
  /\ op = "build_chunked_prompts"
  /\ ~should_chunk(diff_text)
  /\ FileCount >= 2
  /\ units[1].chunk.files = <<ALL>>

\* the review is within MAX_COMMENT_LENGTH minus the header
ReviewFits == StrLen(review_text) <= MAX_COMMENT_LENGTH - StrLen(COMMENT_HEADER)

\* the POST requests sent so far
PostRequests == SelectSeq(gh.requests, LAMBDA r : r.method = "POST")

(***************************************************************************)
(* C26  Comment posting order: a review that fits is one comment, header   *)
(* and review without part label; a review split into N >= 2 chunks is N   *)
(* comments, the i-th being header, 'Part i/N' and chunk i; comments are   *)
(* posted in that order, each after the one before it succeeded, and       *)
(* after a failed post the call has raised and nothing more is sent.       *)
(***************************************************************************)
C26_PostingOrder ==
  gh.op = "post_review_chunked" =>
    LET N == Len(review_chunks)
        sent == PostRequests
    IN /\ ReviewFits => pending = <<Cat(COMMENT_HEADER, review_text)>>
       /\ (~ReviewFits /\ N >= 2) =>
            /\ Len(pending) = N
            /\ \A i \in 1..N :
                 pending[i] = Cat(Cat(COMMENT_HEADER, PartLabel(i, N)),
                                  review_chunks[i])
       /\ (ReviewFits \/ N >= 2) =>
            /\ Len(posted) <= Len(pending)
            /\ posted = SubSeq(pending, 1, Len(posted))
            /\ \A i \in 1..Len(sent) - 1 : sent[i].outcome = "200"
            /\ Len(sent) = Len(posted) + (IF gh.pc = "raised" THEN 1 ELSE 0)
            /\ gh.pc = "raised" <=>
                 (sent # <<>> /\ sent[Len(sent)].outcome # "200")
            /\ gh.pc = "returned" => posted = pending

\* the first part was posted and the post of the second part failed
C26_Witness ==
  /\ gh.op = "post_review_chunked"
  /\ ~ReviewFits
  /\ Len(review_chunks) >= 2
  /\ Len(posted) = 1
  /\ gh.pc = "raised"

\* the lines of a text that are not whitespace only, in order
NonBlankLines(t) == SelectSeq(Split(t, NL), LAMBDA l : Strip(l) # <<>>)

\* the non-blank lines of chunks 1..k, in order
RECURSIVE ChunkLinesUpTo(_)
ChunkLinesUpTo(k) ==
  IF k <= 0 THEN <<>>
  ELSE ChunkLinesUpTo(k - 1) \o NonBlankLines(review_chunks[k])

(***************************************************************************)
(* C28  No review line is lost when splitting a long review: the non-blank *)
(* lines of the chunks returned by _split_review_into_chunks, taken in     *)
(* chunk order, are the non-blank lines of the review in their original    *)
(* order, also when the review holds more than safe_limit characters of    *)
(* blank lines in a row.                                                   *)
(***************************************************************************)
C28_NoLineLost ==
  (gh.op = "post_review_chunked" /\ ~ReviewFits) =>
    ChunkLinesUpTo(Len(review_chunks)) = NonBlankLines(review_text)

(***************************************************************************)
(* C30  Pipeline ordering in main: a GitHub request is made only with a PR *)
(* number, GITHUB_TOKEN and GITHUB_REPOSITORY; an LLM call comes after a   *)
(* diff request that succeeded; a review comment is posted after an LLM    *)
(* call that returned; one run never posts both the fallback comment and a *)
(* review comment; a run without PR number exits with code 0 and makes no  *)
(* external call; a run with PR number exits with code 0 only when every   *)
(* call succeeded and the review was posted, and with code 1 otherwise.    *)
(***************************************************************************)
C30_PipelineOrdering ==
  LET calls == run.calls
      n == Len(calls)
      Is(i, kind, what) == calls[i].kind = kind /\ calls[i].what = what
      failed == \/ ~environ.GITHUB_TOKEN
                \/ ~environ.GITHUB_REPOSITORY
                \/ ~environ.GEMINI_API_KEY
                \/ \E i \in 1..n : calls[i].outcome # "200"
  IN /\ (\E i \in 1..n : calls[i].kind \in {"GET", "POST"}) =>
          /\ HasPrNumber
          /\ environ.GITHUB_TOKEN
          /\ environ.GITHUB_REPOSITORY
     /\ \A i \in 1..n :
          calls[i].kind = "LLM" =>
            \E j \in 1..i - 1 :
              Is(j, "GET", "diff") /\ calls[j].outcome = "200"
     /\ \A i \in 1..n :
          Is(i, "POST", "review") =>
            \E j \in 1..i - 1 :
              calls[j].kind = "LLM" /\ calls[j].outcome = "200"
     /\ ~\E i, j \in 1..n :
           Is(i, "POST", "fallback") /\ Is(j, "POST", "review")
     /\ run.pc = "exit" =>
          /\ ~HasPrNumber => (run.exit_code = 0 /\ calls = <<>>)
          /\ HasPrNumber => run.exit_code \in {0, 1}
          /\ (HasPrNumber /\ (failed \/ run.fatal # "")) => run.exit_code = 1
          /\ (HasPrNumber /\ run.exit_code = 0) =>
               /\ ~failed
               /\ n > 0
               /\ Is(n, "POST", "review")
               /\ Cardinality(ReviewPosts) = Len(run.to_post)

\* a run that fetched the diff, got a review and posted it in two comments
C30_Witness ==
  /\ run.pc = "exit"
  /\ run.exit_code = 0
  /\ Cardinality(ReviewPosts) >= 2

====
